---- MODULE Spec2Model ----
(***************************************************************************)
(* A model of prometheus-config-loader: the template expansion engine      *)
(* (package templates), the rule loader (package cfgloader) and the        *)
(* command (package main).                                                 *)
(*                                                                         *)
(* Six specifications share the module:                                    *)
(*   SpecMerge   mergeValues applied to two arbitrary variable sets        *)
(*   Spec        the expansion engine: createInternalTemplate,             *)
(*               expandDirectory, ExpandDirectory, TemplateData.Cleanup    *)
(*   SpecLoader  LoadConfigurationDirectory over a directory of rule files *)
(*   SpecName    buildRuleName applied to a path and a target name         *)
(*   SpecTool    one run of main: expansion, promtool, upload              *)
(*   SpecConc    expandDirectory for two contexts, interleaved             *)
(***************************************************************************)
EXTENDS Naturals, Sequences, FiniteSets, TLC

VARIABLES
    \* ---- SpecMerge
    mFirst,      \* first argument of mergeValues
    mSecond,     \* second argument of mergeValues
    mResult,     \* value returned by mergeValues
    mDone,       \* TRUE once mergeValues has returned
    \* ---- Spec: the source directory (never written by the program)
    srcVars,     \* the *.vars files: layer name -> content
    srcBad,      \* the top-level *.yaml templates that do not parse
    srcFixtures, \* base names of the tests/*.yaml fixture files
    \* ---- Spec: the program and its output root
    caller,      \* who drives the package: its own tests, or a client
    disk,        \* output root: directory name -> its content
    allocated,   \* directory names mktemp has returned so far
    results,     \* one record per expandDirectory call, in call order
    held,        \* the TemplateData values the caller holds
    cleaned,     \* the TemplateData values Cleanup has been called on
    edPc,        \* ExpandDirectory: "idle" or "loop"
    edContexts,  \* ExpandDirectory: its contexts argument
    edIdx,       \* ExpandDirectory: position of the range loop
    edTemplates, \* ExpandDirectory: its local variable templates
    edRv,        \* ExpandDirectory: its local variable rv
    edAttempts,  \* contexts the current or last ExpandDirectory call expanded
    edRet,       \* what the last ExpandDirectory call returned
    \* ---- SpecLoader
    ldGlobOK,    \* whether filepath.Glob accepts the pattern <directory>/*.yaml
    ldFiles,     \* the rule files of the directory: file name -> content
    ldDone,      \* TRUE once LoadConfigurationDirectory has returned
    ldRet,       \* what LoadConfigurationDirectory returned
    \* ---- SpecName
    nmFile,      \* first argument of buildRuleName
    nmProm,      \* second argument of buildRuleName
    nmRet,       \* value returned by buildRuleName
    nmDone,      \* TRUE once buildRuleName has returned
    \* ---- SpecTool: one run of the command
    tlArgs,      \* the flags: contexts, dryRun, skipSyntax, skipUnits
    tlRendered,  \* what the source directory renders to: context -> rule files
    tlPc,        \* position of main
    tlContexts,  \* main: contexts, once "unittest" is put in front
    tlData,      \* main: tplData, the mapping ExpandDirectory returned
    tlDisk,      \* output root: directory name -> its content
    tlChecks,    \* promtool runs so far: [op, dir, file, ok]
    tlIdx,       \* main: position of the upload loop
    tlRules,     \* uploadPrometheusRules: rules.Items
    tlRule,      \* uploadPrometheusRules: position of the range over the rules
    tlGot,       \* uploadPrometheusRules: p, the object Get returned
    tlRemote,    \* the PrometheusRule objects of each cluster: name -> version
    tlLoads,     \* LoadConfigurationDirectory calls so far: [dir, err, items]
    tlEmits,     \* rule lists printed in dry-run so far: [ctx, dir, items]
    tlCalls,     \* API calls so far, in order
    tlVisits,    \* contexts uploadPrometheusRules was called for, in order
    tlFaults,    \* calls so far that failed for a reason outside the program
    \* ---- SpecConc: expansions of two contexts, interleaved
    cxData,      \* the internalTemplate both share; its maps hold references
    cxHeap,      \* the map[string]string objects: reference -> content
    cxProc,      \* each expansion's context, position and local variables
    cxDisk,      \* output root: directory name -> its content
    cxAlloc,     \* directory names mktemp has returned so far
    cxWrites     \* which expansion wrote into which directory

mergeVars == <<mFirst, mSecond, mResult, mDone>>
srcDirVars == <<srcVars, srcBad, srcFixtures>>
loaderVars == <<ldGlobOK, ldFiles, ldDone, ldRet>>
nameVars == <<nmFile, nmProm, nmRet, nmDone>>
toolVars == <<tlArgs, tlRendered, tlPc, tlContexts, tlData, tlDisk, tlChecks,
              tlIdx, tlRules, tlRule, tlGot, tlRemote, tlLoads, tlEmits, tlCalls,
              tlVisits, tlFaults>>
concVars == <<cxData, cxHeap, cxProc, cxDisk, cxAlloc, cxWrites>>
restVars == <<nameVars, toolVars, concVars>>
engineVars == <<caller, disk, allocated, results, held, cleaned,
                edPc, edContexts, edIdx, edTemplates, edRv, edAttempts, edRet>>

(***************************************************************************)
(* Values: a Go map[string]string, modelled as a function whose domain is  *)
(* the set of keys present.  A nil map and an empty map read the same.     *)
(***************************************************************************)
NumKeys == 2
NumVals == 2

KeyUniverse == <<"context", "threshold", "cluster", "team">>
ValUniverse == <<"evil", "v1", "v2", "v3">>

Keys == {KeyUniverse[i] : i \in 1..NumKeys}
Vals == {ValUniverse[i] : i \in 1..NumVals}

EmptyValues == [k \in {} |-> "none"]

AllValues == UNION {[S -> Vals] : S \in SUBSET Keys}

\* rv.Values[key] = val
MapSet(m, key, val) ==
    [k \in (DOMAIN m) \cup {key} |-> IF k = key THEN val ELSE m[k]]

\* for key, val := range src { rv[key] = val }, over the keys still to visit
RECURSIVE RangeCopy(_, _, _)
RangeCopy(rv, src, todo) ==
    IF todo = {} THEN rv
    ELSE LET key == CHOOSE k \in todo : TRUE
         IN  RangeCopy(MapSet(rv, key, src[key]), src, todo \ {key})

\* a merge that lets the first argument win (the two loops swapped)
mergeValuesFirstWins(first, second) ==
    RangeCopy(RangeCopy(EmptyValues, second, DOMAIN second), first, DOMAIN first)

mergeValues(first, second) ==
    RangeCopy(RangeCopy(EmptyValues, first, DOMAIN first), second, DOMAIN second)

(***************************************************************************)
(* The source directory.  Layer names stand for the files <layer>.vars;    *)
(* filepath.Glob returns names sorted, so the files are read in the order  *)
(* of LayerOrder and the templates are parsed in the order of              *)
(* TemplateOrder.                                                          *)
(***************************************************************************)
Contexts == {"c1", "c2"}
LayerOrder == <<"c1", "c2", "default">>
TemplateOrder == <<"rule1.yaml", "rule2.yaml">>
FixtureOrder == <<"rule1test.yaml">>

SeqRange(s) == {s[i] : i \in 1..Len(s)}

\* the key each template file prints, between the delimiters <{[ and ]}>
TemplateRef(name) == IF name = "rule1.yaml" THEN "context" ELSE "threshold"

\* a *.vars file holding the YAML mapping v, and one yaml.Unmarshal rejects
VarFile(v) == [ok |-> TRUE, values |-> v]
Malformed == [ok |-> FALSE, values |-> EmptyValues]

\* the contents of the *.vars files of the source directories considered
VarDirs ==
    { ("default" :> VarFile("context" :> "evil" @@ "threshold" :> "v1")
         @@ "c1" :> VarFile("context" :> "c2" @@ "threshold" :> "v2")),
      ("default" :> VarFile("threshold" :> "v1") @@ "c1" :> Malformed) }

\* the bytes of a fixture file
FixtureContent(base) == <<"fixture", base>>

(***************************************************************************)
(* createInternalTemplate and getVariables                                 *)
(***************************************************************************)
NoError == "nil"

\* for _, name := range names { readValues; rv.variables[context] = values }
RECURSIVE ReadVarsLoop(_, _, _)
ReadVarsLoop(rv, files, todo) ==
    IF todo = <<>> THEN [rv |-> rv, err |-> NoError]
    ELSE LET layer == Head(todo)
         IN  IF layer \notin DOMAIN files
             THEN ReadVarsLoop(rv, files, Tail(todo))
             ELSE IF ~files[layer].ok
             THEN [rv |-> rv, err |-> "yaml"]
             ELSE ReadVarsLoop(
                      [rv EXCEPT !.variables = MapSet(@, layer, files[layer].values)],
                      files, Tail(todo))

\* for _, name := range names { ParseFiles; rv.templates[base] = tmpl }
RECURSIVE ParseLoop(_, _, _)
ParseLoop(rv, bad, todo) ==
    IF todo = <<>> THEN [rv |-> rv, err |-> NoError]
    ELSE LET base == Head(todo)
         IN  IF base \in bad
             THEN [rv |-> rv, err |-> "parse"]
             ELSE ParseLoop(
                      [rv EXCEPT !.templates =
                          MapSet(@, base, [name |-> base, ref |-> TemplateRef(base)])],
                      bad, Tail(todo))

\* a loader that hands back an empty template map when a template is malformed
createInternalTemplateClean(files, bad, fixtures) ==
    LET rv0 == [variables |-> EmptyValues, templates |-> EmptyValues,
                sourceDir |-> fixtures]
        read == ReadVarsLoop(rv0, files, LayerOrder)
        parsed == ParseLoop(read.rv, bad, TemplateOrder)
    IN  IF read.err # NoError THEN read
        ELSE IF parsed.err # NoError
        THEN [rv |-> [parsed.rv EXCEPT !.templates = EmptyValues], err |-> parsed.err]
        ELSE parsed

\* The directory argument is the source directory of the model: its *.vars
\* files, its malformed templates and its fixtures.  sourceDir keeps what
\* expandDirectory later reads through it, the fixtures.
createInternalTemplate(files, bad, fixtures) ==
    LET rv0 == [variables |-> EmptyValues, templates |-> EmptyValues,
                sourceDir |-> fixtures]
        read == ReadVarsLoop(rv0, files, LayerOrder)
    IN  IF read.err # NoError THEN read
        ELSE ParseLoop(read.rv, bad, TemplateOrder)

getVariables(data, context) ==
    IF context \in DOMAIN data.variables THEN data.variables[context]
    ELSE EmptyValues

(***************************************************************************)
(* mktemp.  A directory name is the leaf "tmp-<context>-" followed by the  *)
(* suffix ioutil.TempDir draws.  TempDir draws again while the name        *)
(* exists, and the model takes a suffix to be drawn once only.  Names are  *)
(* only ever compared with each other, so the suffixes are numbered in the *)
(* order in which they are drawn for a leaf.                               *)
(***************************************************************************)
MaxCalls == 2
MaxFaults == 1

NoDir == [ctx |-> "", n |-> 0]

\* a mktemp that joins base and leaf to a fixed name and creates it if needed
mktempNoCheck(leaf, used) == {[ctx |-> leaf, n |-> 1]}

\* the names mktemp may return for this leaf, given those returned so far
mktemp(leaf, used) ==
    {[ctx |-> leaf, n |-> Cardinality({d \in used : d.ctx = leaf}) + 1]}

(***************************************************************************)
(* expandDirectory.  io is what the file system answers during the call:   *)
(*   mktempOK  whether mktemp returns a directory, and outDir, its name    *)
(*   order     the order in which range visits the map data.templates      *)
(*   fault     the one os.Create, Execute or os.Open call that fails       *)
(*   mkdirOK   whether os.Mkdir of the tests directory succeeds            *)
(*   copyFail  the fixtures whose io.Copy stops early                      *)
(* failed is not program state: it collects the steps that failed.         *)
(***************************************************************************)
NoFault == <<"none", "">>

ZeroTemplateData == [Context |-> "", Directory |-> NoDir, Files |-> <<>>]

TopPath(base) == <<base>>
TestsPath(base) == <<"tests", base>>

\* what a created file holds before, and after, a write that stopped early
Empty == <<"empty">>
Partial == <<"partial">>

\* tpl.Execute(out, values): a key the map lacks prints as the empty string
Render(tpl, values) ==
    <<"rendered", tpl.name,
      IF tpl.ref \in DOMAIN values THEN values[tpl.ref] ELSE "">>

\* the variables without the context injected after the merge
composeValuesNoInject(context, data) ==
    mergeValues(MapSet(getVariables(data, "default"), "context", context),
                getVariables(data, context))

\* values := mergeValues(default, context); values.Values["context"] = context
composeValues(context, data) ==
    MapSet(mergeValues(getVariables(data, "default"), getVariables(data, context)),
           "context", context)

\* for filename, tpl := range data.templates { ... }
RECURSIVE TemplateLoop(_, _, _, _)
TemplateLoop(st, data, io, todo) ==
    IF todo = <<>> THEN st
    ELSE LET filename == Head(todo)
             created == [st EXCEPT !.files = MapSet(@, TopPath(filename), Empty),
                                   !.rv.Files = Append(@, TopPath(filename))]
         IN  IF io.fault = <<"create", filename>>
             THEN [st EXCEPT !.err = "create", !.failed = @ \cup {"create"}]
             ELSE IF io.fault = <<"execute", filename>>
             THEN [created EXCEPT !.err = "execute",
                                  !.files = MapSet(@, TopPath(filename), Partial),
                                  !.failed = @ \cup {"execute"}]
             ELSE TemplateLoop(
                      [created EXCEPT !.files =
                          MapSet(@, TopPath(filename),
                                 Render(data.templates[filename], st.values))],
                      data, io, Tail(todo))

\* os.Mkdir(filepath.Join(outDir, "tests"), 0777), its error dropped
MkdirTests(st, io) ==
    [st EXCEPT !.tests = io.mkdirOK,
               !.failed = IF io.mkdirOK THEN @ ELSE @ \cup {"mkdir"}]

\* io.Copy(sink, source), its error dropped; rv.Files = append(rv.Files, ...)
CopyFixture(st, io, file) ==
    [st EXCEPT !.files = MapSet(@, TestsPath(file),
                                IF file \in io.copyFail THEN Partial
                                ELSE FixtureContent(file)),
               !.failed = IF file \in io.copyFail THEN @ \cup {"copy"} ELSE @,
               !.rv.Files = Append(@, TestsPath(file))]

\* for _, file := range testFiles { ... }
RECURSIVE FixtureLoop(_, _, _)
FixtureLoop(st, io, todo) ==
    IF todo = <<>> THEN st
    ELSE LET file == Head(todo)
         IN  IF io.fault = <<"open", file>>
             THEN [st EXCEPT !.err = "open", !.failed = @ \cup {"open"}]
             ELSE IF ~st.tests \/ io.fault = <<"sink", file>>
             THEN [st EXCEPT !.err = "sink", !.failed = @ \cup {"sink"}]
             ELSE FixtureLoop(CopyFixture(st, io, file), io, Tail(todo))

\* filepath.Glob(filepath.Join(data.sourceDir, "tests", "*.yaml"))
TestFiles(data) == SelectSeq(FixtureOrder, LAMBDA f : f \in data.sourceDir)

expandDirectory(context, data, io) ==
    LET values == composeValues(context, data)
        st0 == [rv |-> ZeroTemplateData, err |-> NoError, values |-> values,
                context |-> context, made |-> FALSE, files |-> EmptyValues,
                tests |-> FALSE, failed |-> {}]
    IN  IF ~io.mktempOK
        THEN [st0 EXCEPT !.err = "mktemp", !.failed = {"mktemp"}]
        ELSE LET st1 == [st0 EXCEPT !.rv.Directory = io.outDir,
                                    !.rv.Context = context,
                                    !.made = TRUE]
                 st2 == TemplateLoop(st1, data, io, io.order)
             IN  IF st2.err # NoError THEN st2
                 ELSE FixtureLoop(MkdirTests(st2, io), io, TestFiles(data))

(***************************************************************************)
(* Package cfgloader.  A file name is the sequence of its characters.  A   *)
(* rule file is what os.Open, ioutil.ReadAll and yaml.Unmarshal make of    *)
(* it: whether it can be read, whether it decodes, and the groups decoded. *)
(* A field of a rule that the file leaves out decodes as the empty string. *)
(***************************************************************************)
MaxFiles == 3

\* the *.yaml names a directory may hold, in the order Glob sorts them
FileNameOrder ==
    << <<"a", "-", "b", ".", "y", "a", "m", "l">>,
       <<"a", ".", "b", ".", "y", "a", "m", "l">>,
       <<"a", ".", "y", "a", "m", "l">>,
       <<"b", ".", "y", "a", "m", "l">> >>

FileNames == {FileNameOrder[i] : i \in 1..MaxFiles}

RuleOf(record, alert) == [Record |-> record, Alert |-> alert, Expr |-> "up"]
GroupOf(rules) == [Name |-> "g", Interval |-> "", Rules |-> rules]
FileOf(groups) == [readable |-> TRUE, yamlOK |-> TRUE, groups |-> groups]

FileContents ==
    { [readable |-> FALSE, yamlOK |-> FALSE, groups |-> <<>>],
      [readable |-> TRUE, yamlOK |-> FALSE, groups |-> <<>>],
      FileOf(<<>>),
      FileOf(<<GroupOf(<<RuleOf("m", "")>>)>>),
      FileOf(<<GroupOf(<<RuleOf("", "A")>>)>>),
      FileOf(<<GroupOf(<<RuleOf("m", "A")>>)>>),
      FileOf(<<GroupOf(<<RuleOf("", "")>>)>>) }

NoErr == [kind |-> "nil", of |-> <<>>]
NoDoc == [Name |-> <<>>, Namespace |-> "", Prometheus |-> <<>>, Groups |-> <<>>,
          file |-> <<>>]

Namespace == "monitoring"
Prometheus == <<"k", "8", "s">>

\* filepath.Base drops trailing separators first
RECURSIVE TrimSlashes(_)
TrimSlashes(path) ==
    IF path # <<>> /\ path[Len(path)] = "/"
    THEN TrimSlashes(SubSeq(path, 1, Len(path) - 1))
    ELSE path

\* what follows the last separator
RECURSIVE LastElement(_)
LastElement(path) ==
    IF \E i \in 1..Len(path) : path[i] = "/"
    THEN LastElement(Tail(path))
    ELSE path

\* filepath.Base: "." for the empty path, "/" for a path of separators only
Base(path) ==
    IF path = <<>> THEN <<".">>
    ELSE IF TrimSlashes(path) = <<>> THEN <<"/">>
    ELSE LastElement(TrimSlashes(path))

\* strings.ReplaceAll(s, ".", "-")
ReplaceDots(s) == [i \in 1..Len(s) |-> IF s[i] = "." THEN "-" ELSE s[i]]

\* a name derivation that leaves the dots of the stem in place
buildRuleNameKeepDots(fileName, prometheus) ==
    LET base == Base(fileName)
        stem == SubSeq(base, 1, Len(base) - 5)
    IN  prometheus \o <<"-">> \o stem \o <<"-", "r", "u", "l", "e", "s">>

\* fmt.Sprintf("%s-%s-rules", prometheus, base), base cut by five characters
buildRuleName(fileName, prometheus) ==
    LET base == Base(fileName)
        stem == ReplaceDots(SubSeq(base, 1, Len(base) - 5))
    IN  prometheus \o <<"-">> \o stem \o <<"-", "r", "u", "l", "e", "s">>

\* a ParseRuleSpec without the test len(intermediate.Groups) == 0
ParseRuleSpecAllowEmpty(data) ==
    IF ~data.yamlOK THEN [rv |-> <<>>, err |-> "yaml"]
    ELSE [rv |-> [g \in 1..Len(data.groups) |->
                    [Name |-> data.groups[g].Name,
                     Interval |-> data.groups[g].Interval,
                     Rules |-> [r \in 1..Len(data.groups[g].Rules) |->
                                  data.groups[g].Rules[r]]]],
          err |-> NoError]

\* the loops of ParseRuleSpec copy every group and every rule, field by field
ParseRuleSpec(data) ==
    IF ~data.yamlOK THEN [rv |-> <<>>, err |-> "yaml"]
    ELSE IF Len(data.groups) = 0 THEN [rv |-> <<>>, err |-> "No groups found"]
    ELSE [rv |-> [g \in 1..Len(data.groups) |->
                    [Name |-> data.groups[g].Name,
                     Interval |-> data.groups[g].Interval,
                     Rules |-> [r \in 1..Len(data.groups[g].Rules) |->
                                  data.groups[g].Rules[r]]]],
          err |-> NoError]

\* file is not a field of the PrometheusRule: it remembers the source file
LoadConfigurationFile(files, name, namespace, prometheus) ==
    IF name \notin DOMAIN files \/ ~files[name].readable
    THEN [rv |-> NoDoc, err |-> [kind |-> "open", of |-> name]]
    ELSE LET spec == ParseRuleSpec(files[name])
         IN  IF spec.err # NoError
             THEN [rv |-> NoDoc, err |-> [kind |-> spec.err, of |-> name]]
             ELSE [rv |-> [Name |-> buildRuleName(name, prometheus),
                           Namespace |-> namespace,
                           Prometheus |-> prometheus,
                           Groups |-> spec.rv,
                           file |-> name],
                   err |-> NoErr]

\* the body of the range loop, keeping the first error instead of the last
LoadOneKeepFirst(st, files, name, namespace, prometheus) ==
    LET one == LoadConfigurationFile(files, name, namespace, prometheus)
    IN  IF one.err # NoErr
        THEN [st EXCEPT !.errSeen = IF @ = NoErr THEN one.err ELSE @,
                        !.attempted = Append(@, name)]
        ELSE [st EXCEPT !.items = Append(@, one.rv),
                        !.attempted = Append(@, name)]

\* if err != nil { errSeen = err } else { rv.Items = append(rv.Items, rule) }
LoadOne(st, files, name, namespace, prometheus) ==
    LET one == LoadConfigurationFile(files, name, namespace, prometheus)
    IN  IF one.err # NoErr
        THEN [st EXCEPT !.errSeen = one.err, !.attempted = Append(@, name)]
        ELSE [st EXCEPT !.items = Append(@, one.rv),
                        !.attempted = Append(@, name)]

\* a range loop that gives up at the first file that fails
RECURSIVE LoadLoopStop(_, _, _, _, _)
LoadLoopStop(st, files, todo, namespace, prometheus) ==
    IF todo = <<>> \/ st.errSeen # NoErr THEN st
    ELSE LoadLoopStop(LoadOne(st, files, Head(todo), namespace, prometheus),
                      files, Tail(todo), namespace, prometheus)

\* for _, name := range names { ... }; attempted is not program state
RECURSIVE LoadLoop(_, _, _, _, _)
LoadLoop(st, files, todo, namespace, prometheus) ==
    IF todo = <<>> THEN st
    ELSE LoadLoop(LoadOne(st, files, Head(todo), namespace, prometheus),
                  files, Tail(todo), namespace, prometheus)

\* filepath.Glob: the *.yaml names of the directory, sorted; nil for none
GlobYaml(files) == SelectSeq(FileNameOrder, LAMBDA n : n \in DOMAIN files)

\* a directory loader without the test names == nil: no file, no error
LoadConfigurationDirectoryEmptyOK(globOK, files, namespace, prometheus) ==
    LET names == GlobYaml(files)
        st0 == [items |-> <<>>, errSeen |-> NoErr, attempted |-> <<>>]
    IN  IF ~globOK
        THEN [isNil |-> TRUE, items |-> <<>>, attempted |-> <<>>,
              err |-> [kind |-> "glob", of |-> <<>>]]
        ELSE LET st == LoadLoop(st0, files, names, namespace, prometheus)
             IN  [isNil |-> FALSE, items |-> st.items, attempted |-> st.attempted,
                  err |-> st.errSeen]

\* globOK is whether filepath.Glob accepts the pattern.  Glob reports no
\* error for a directory that is missing or cannot be read: it returns nil
\* names, as it does for a directory without a *.yaml file.
LoadConfigurationDirectory(globOK, files, namespace, prometheus) ==
    LET names == GlobYaml(files)
        st0 == [items |-> <<>>, errSeen |-> NoErr, attempted |-> <<>>]
    IN  IF ~globOK
        THEN [isNil |-> TRUE, items |-> <<>>, attempted |-> <<>>,
              err |-> [kind |-> "glob", of |-> <<>>]]
        ELSE IF names = <<>>
        THEN [isNil |-> TRUE, items |-> <<>>, attempted |-> <<>>,
              err |-> [kind |-> "Unable to expand directory", of |-> <<>>]]
        ELSE LET st == LoadLoop(st0, files, names, namespace, prometheus)
             IN  [isNil |-> FALSE, items |-> st.items, attempted |-> st.attempted,
                  err |-> st.errSeen]

NotReturned == [isNil |-> TRUE, items |-> <<>>, attempted |-> <<>>, err |-> NoErr]

LoadDirectory ==
    /\ ~ldDone
    /\ ldRet' = LoadConfigurationDirectory(ldGlobOK, ldFiles, Namespace, Prometheus)
    /\ ldDone' = TRUE
    /\ UNCHANGED <<ldGlobOK, ldFiles, mergeVars, srcDirVars, engineVars, restVars>>

LoaderIdle ==
    /\ ldGlobOK = TRUE
    /\ ldFiles = EmptyValues
    /\ ldDone = FALSE
    /\ ldRet = NotReturned

(***************************************************************************)
(* The engine's operations                                                 *)
(***************************************************************************)
EmptyTemplate == [variables |-> EmptyValues, templates |-> EmptyValues,
                  sourceDir |-> {}]
NoReturn == [returned |-> FALSE, rv |-> EmptyValues, isNil |-> FALSE,
             err |-> NoError]

Perms(S) == {o \in [1..Cardinality(S) -> S] : SeqRange(o) = S}

Faults(data) ==
    {NoFault}
    \cup {<<k, t>> : k \in {"create", "execute"}, t \in DOMAIN data.templates}
    \cup {<<k, f>> : k \in {"open", "sink"}, f \in data.sourceDir}

MktempFails == [mktempOK |-> FALSE, outDir |-> NoDir, order |-> <<>>,
                fault |-> NoFault, mkdirOK |-> TRUE, copyFail |-> {}]

\* every way the file system may answer one expandDirectory call
IOChoices(context, data) ==
    {MktempFails}
    \cup [mktempOK : {TRUE}, outDir : mktemp(context, allocated),
          order : Perms(DOMAIN data.templates), fault : Faults(data),
          mkdirOK : BOOLEAN, copyFail : SUBSET data.sourceDir]

\* os.Remove in place of os.RemoveAll: a directory that holds files stays
RemoveOnlyEmpty(d, path) ==
    IF path \in DOMAIN d /\ DOMAIN d[path].files = {}
    THEN [x \in (DOMAIN d) \ {path} |-> d[x]]
    ELSE d

\* os.RemoveAll(path): nothing happens, and nothing fails, for a path that
\* does not exist, the empty path included
RemoveAll(d, path) == [x \in (DOMAIN d) \ {path} |-> d[x]]

\* the calls so far in which some step failed
FaultyCalls == {i \in 1..Len(results) : results[i].failed # {}}

\* the effect of one expandDirectory call on the output root and the log;
\* at most MaxFaults calls of a run meet a failing step
Expanded(res) ==
    /\ res.failed # {} => Cardinality(FaultyCalls) < MaxFaults
    /\ disk' = IF res.made
               THEN MapSet(disk, res.rv.Directory,
                           [files |-> res.files, tests |-> res.tests])
               ELSE disk
    /\ allocated' = IF res.made THEN allocated \cup {res.rv.Directory}
                    ELSE allocated
    /\ results' = Append(results,
                         [context |-> res.context, rv |-> res.rv, err |-> res.err,
                          values |-> res.values, failed |-> res.failed])

\* a loop body that logs the error and goes on to the next context
LoopBodyContinue(rv, idx, context, data, err) ==
    IF err # NoError
    THEN [pc |-> "loop", idx |-> idx + 1, rv |-> rv, ret |-> NoReturn]
    ELSE [pc |-> "loop", idx |-> idx + 1, rv |-> MapSet(rv, context, data),
          ret |-> NoReturn]

\* if err != nil { return nil, err }; rv[context] = data
LoopBody(rv, idx, context, data, err) ==
    IF err # NoError
    THEN [pc |-> "idle", idx |-> 0, rv |-> EmptyValues,
          ret |-> [returned |-> TRUE, rv |-> EmptyValues, isNil |-> TRUE,
                   err |-> err]]
    ELSE [pc |-> "loop", idx |-> idx + 1, rv |-> MapSet(rv, context, data),
          ret |-> NoReturn]

\* the contexts arguments considered: one context more than the calls of a
\* run, so that a failing call can leave a context of the list behind
ContextLists == UNION {[1..n -> Contexts] : n \in 0..(MaxCalls + 1)}

\* what is left of a finished ExpandDirectory call is gone once the caller
\* makes its next call
EDForgotten ==
    /\ edContexts' = <<>>
    /\ edTemplates' = EmptyTemplate
    /\ edAttempts' = <<>>
    /\ edRet' = NoReturn

\* expandDirectory is not exported: only the package's tests call it.  A
\* test loads the source directory, calls expandDirectory and keeps the
\* result
ExpandOne ==
    /\ caller = "test"
    /\ edPc = "idle"
    /\ Len(results) < MaxCalls
    /\ LET loaded == createInternalTemplate(srcVars, srcBad, srcFixtures)
       IN  /\ loaded.err = NoError
           /\ \E context \in Contexts :
                \E io \in IOChoices(context, loaded.rv) :
                   LET res == expandDirectory(context, loaded.rv, io)
                   IN  /\ Expanded(res)
                       /\ held' = held \cup {res.rv}
    /\ EDForgotten
    /\ UNCHANGED <<caller, cleaned, edPc, edIdx, edRv>>
    /\ UNCHANGED <<mergeVars, srcDirVars, loaderVars, restVars>>

\* ExpandDirectory up to its range loop
EDStart ==
    /\ caller = "client"
    /\ edPc = "idle"
    /\ \E contexts \in ContextLists :
         /\ Len(contexts) <= MaxCalls - Len(results) + 1
         /\ edContexts' = contexts
    /\ LET r == createInternalTemplate(srcVars, srcBad, srcFixtures)
       IN  /\ edTemplates' = r.rv
           /\ IF r.err # NoError
              THEN /\ edPc' = "idle"
                   /\ edIdx' = 0
                   /\ edRet' = [returned |-> TRUE, rv |-> EmptyValues,
                                isNil |-> FALSE, err |-> r.err]
              ELSE /\ edPc' = "loop"
                   /\ edIdx' = 1
                   /\ edRet' = NoReturn
    /\ edRv' = EmptyValues
    /\ edAttempts' = <<>>
    /\ UNCHANGED <<caller, disk, allocated, results, held, cleaned>>
    /\ UNCHANGED <<mergeVars, srcDirVars, loaderVars, restVars>>

\* one pass of the range loop of ExpandDirectory
EDStep ==
    /\ edPc = "loop"
    /\ edIdx <= Len(edContexts)
    /\ Len(results) < MaxCalls
    /\ LET context == edContexts[edIdx]
       IN  \E io \in IOChoices(context, edTemplates) :
              LET res == expandDirectory(context, edTemplates, io)
                  nxt == LoopBody(edRv, edIdx, context, res.rv, res.err)
              IN  /\ Expanded(res)
                  /\ edPc' = nxt.pc
                  /\ edIdx' = nxt.idx
                  /\ edRv' = nxt.rv
                  /\ edRet' = nxt.ret
                  /\ edAttempts' = Append(edAttempts, Len(results) + 1)
    /\ UNCHANGED <<caller, held, cleaned, edContexts, edTemplates>>
    /\ UNCHANGED <<mergeVars, srcDirVars, loaderVars, restVars>>

\* return rv, nil: the caller now holds the values of the mapping
EDReturn ==
    /\ edPc = "loop"
    /\ edIdx > Len(edContexts)
    /\ edRet' = [returned |-> TRUE, rv |-> edRv, isNil |-> FALSE, err |-> NoError]
    /\ held' = held \cup {edRv[c] : c \in DOMAIN edRv}
    /\ edPc' = "idle"
    /\ edIdx' = 0
    /\ edRv' = EmptyValues
    /\ UNCHANGED <<caller, disk, allocated, results, cleaned, edContexts,
                   edTemplates, edAttempts>>
    /\ UNCHANGED <<mergeVars, srcDirVars, loaderVars, restVars>>

\* t.Cleanup() on a TemplateData the caller holds
Cleanup ==
    /\ edPc = "idle"
    /\ \E t \in held :
         /\ disk' = RemoveAll(disk, t.Directory)
         /\ cleaned' = cleaned \cup {t}
    /\ EDForgotten
    /\ UNCHANGED <<caller, allocated, results, held, edPc, edIdx, edRv>>
    /\ UNCHANGED <<mergeVars, srcDirVars, loaderVars, restVars>>

(***************************************************************************)
(* Initial values, one group of variables at a time                        *)
(***************************************************************************)
MergeIdle ==
    /\ mFirst = EmptyValues
    /\ mSecond = EmptyValues
    /\ mResult = EmptyValues
    /\ mDone = FALSE

SourceEmpty ==
    /\ srcVars = EmptyValues
    /\ srcBad = {}
    /\ srcFixtures = {}

EngineIdle ==
    /\ disk = EmptyValues
    /\ allocated = {}
    /\ results = <<>>
    /\ held = {}
    /\ cleaned = {}
    /\ edPc = "idle"
    /\ edContexts = <<>>
    /\ edIdx = 0
    /\ edTemplates = EmptyTemplate
    /\ edRv = EmptyValues
    /\ edAttempts = <<>>
    /\ edRet = NoReturn

NameIdle ==
    /\ nmFile = <<>>
    /\ nmProm = <<>>
    /\ nmRet = <<>>
    /\ nmDone = FALSE

NoObject == [Name |-> <<>>, ResourceVersion |-> 0]

ToolIdle ==
    /\ tlArgs = [contexts |-> <<>>, dryRun |-> FALSE, skipSyntax |-> FALSE,
                 skipUnits |-> FALSE]
    /\ tlRendered = EmptyValues
    /\ tlPc = "start"
    /\ tlContexts = <<>>
    /\ tlData = EmptyValues
    /\ tlDisk = EmptyValues
    /\ tlChecks = {}
    /\ tlIdx = 0
    /\ tlRules = <<>>
    /\ tlRule = 0
    /\ tlGot = NoObject
    /\ tlRemote = EmptyValues
    /\ tlLoads = {}
    /\ tlEmits = {}
    /\ tlCalls = <<>>
    /\ tlVisits = <<>>
    /\ tlFaults = 0

ConcIdle ==
    /\ cxData = EmptyTemplate
    /\ cxHeap = EmptyValues
    /\ cxProc = EmptyValues
    /\ cxDisk = EmptyValues
    /\ cxAlloc = {}
    /\ cxWrites = {}

RestIdle == NameIdle /\ ToolIdle /\ ConcIdle

vars == <<mergeVars, srcDirVars, engineVars, loaderVars, restVars>>

(***************************************************************************)
(* Spec: the expansion engine over each source directory considered.       *)
(***************************************************************************)
Init ==
    /\ MergeIdle
    /\ srcVars \in VarDirs
    /\ srcBad \in {{}} \cup {{t} : t \in SeqRange(TemplateOrder)}
    /\ srcFixtures \in SUBSET SeqRange(FixtureOrder)
    /\ caller \in {"test", "client"}
    /\ EngineIdle
    /\ LoaderIdle
    /\ RestIdle

Next ==
    \/ ExpandOne
    \/ EDStart
    \/ EDStep
    \/ EDReturn
    \/ Cleanup

Spec == Init /\ [][Next]_vars

(***************************************************************************)
(* Properties of the expansion engine                                      *)
(***************************************************************************)
Succeeded == {i \in 1..Len(results) : results[i].err = NoError}

\* C2: the variable set expandDirectory renders a context's templates with
\* maps "context" to that context, whatever default.vars and <context>.vars
\* hold; a rendered template that prints the key shows the context.
C2_ContextInjected ==
    /\ \A i \in 1..Len(results) :
          /\ "context" \in DOMAIN results[i].values
          /\ results[i].values["context"] = results[i].context
    /\ \A d \in DOMAIN disk : \A path \in DOMAIN disk[d].files :
          (disk[d].files[path][1] = "rendered"
             /\ TemplateRef(disk[d].files[path][2]) = "context")
          => disk[d].files[path][3] = d.ctx

\* context c1 was expanded although c1.vars sets "context" to something else
C2_Witness ==
    \E i \in Succeeded :
       /\ results[i].context = "c1"
       /\ "c1" \in DOMAIN srcVars
       /\ "context" \in DOMAIN srcVars["c1"].values
       /\ srcVars["c1"].values["context"] # "c1"
       /\ results[i].rv.Directory \in DOMAIN disk

C4_FilesExact ==
    \A i \in Succeeded :
       LET t == results[i].rv
           expected == {TopPath(f) : f \in SeqRange(TemplateOrder)}
                       \cup {TestsPath(f) : f \in srcFixtures}
       IN  t.Directory \in DOMAIN disk =>
              /\ SeqRange(t.Files) = expected
              /\ Len(t.Files) = Cardinality(expected)
              /\ \A path \in SeqRange(t.Files) :
                    /\ path \in DOMAIN disk[t.Directory].files
                    /\ path[1] = "tests" =>
                          disk[t.Directory].files[path] = FixtureContent(path[2])

\* C5: the attempts of an ExpandDirectory call follow the list, a failed
\* attempt is the last one and its error is what the call returns
C5_InOrderUntilFailure ==
    /\ Len(edAttempts) <= Len(edContexts)
    /\ edPc = "loop" => Len(edAttempts) = edIdx - 1
    /\ \A k \in 1..Len(edAttempts) :
          /\ results[edAttempts[k]].context = edContexts[k]
          /\ results[edAttempts[k]].err # NoError =>
                /\ k = Len(edAttempts)
                /\ edPc = "idle"
                /\ edRet.returned
                /\ edRet.err = results[edAttempts[k]].err

\* C5: ExpandDirectory expands the contexts in list order and stops at the
\* first failure, returning its error; no step of the loop changes or
\* removes a directory that was there before the step.
C5_FailFast ==
    [][ /\ C5_InOrderUntilFailure'
        /\ edPc = "loop" =>
              \A d \in DOMAIN disk : d \in DOMAIN disk' /\ disk'[d] = disk[d]
      ]_vars

\* a call returned the error of its second context, with the first context
\* expanded and its directory in place, and a third context left
C5_Witness ==
    /\ edRet.returned /\ edRet.err # NoError
    /\ Len(edAttempts) = 2 /\ Len(edContexts) = 3
    /\ results[edAttempts[1]].err = NoError
    /\ results[edAttempts[1]].rv.Directory \in DOMAIN disk

\* C6 (as claimed): a call in which some step failed returns an error.
C6_FailureReturnsError ==
    \A i \in 1..Len(results) :
       results[i].failed # {} => results[i].err # NoError

VarsReadable == \A layer \in DOMAIN srcVars : srcVars[layer].ok

\* the templates createInternalTemplate parses before the first malformed one
ParsedBeforeFailure ==
    {TemplateOrder[k] : k \in {n \in 1..Len(TemplateOrder) :
                                  \A m \in 1..n : TemplateOrder[m] \notin srcBad}}

\* C7 (as claimed): the value createInternalTemplate returns with a parse
\* error holds none of the templates parsed before the failure.
C7_NoPartialSet ==
    (edRet.returned /\ edRet.err = "parse") => DOMAIN edTemplates.templates = {}

\* C7 (amended): a malformed template makes createInternalTemplate return an
\* error together with the templates parsed before the failure, and
\* ExpandDirectory drops them: it returns the error with an empty mapping
\* and expands no context.
C7_PartialSetDiscarded ==
    (caller = "client" /\ srcBad # {} /\ VarsReadable) =>
       /\ results = <<>>
       /\ edPc = "idle"
       /\ edRet.returned =>
             /\ edRet.err = "parse"
             /\ DOMAIN edTemplates.templates = ParsedBeforeFailure
             /\ edRet.rv = EmptyValues
             /\ ~edRet.isNil

\* ExpandDirectory returned a parse error after one template had parsed
C7_Witness ==
    /\ edRet.returned /\ edRet.err = "parse"
    /\ DOMAIN edTemplates.templates # {}
    /\ edContexts # <<>>

\* an allocated directory is there exactly when no Cleanup was called on it
C8_ExistsUnlessCleaned ==
    \A d \in allocated :
       d \in DOMAIN disk <=> ~(\E t \in cleaned : t.Directory = d)

InitMerge ==
    /\ mFirst \in AllValues
    /\ mSecond \in AllValues
    /\ mResult = EmptyValues
    /\ mDone = FALSE
    /\ SourceEmpty
    /\ caller = "client"
    /\ EngineIdle
    /\ LoaderIdle
    /\ RestIdle

Merge ==
    /\ ~mDone
    /\ mResult' = mergeValues(mFirst, mSecond)
    /\ mDone' = TRUE
    /\ UNCHANGED <<mFirst, mSecond, srcDirVars, engineVars, loaderVars, restVars>>

NextMerge == Merge

SpecMerge == InitMerge /\ [][NextMerge]_vars

\* C1: mergeValues(A, B) has exactly the keys of A and of B, and maps each
\* key k to B[k] when k is a key of B and to A[k] otherwise.
C1_MergeRightBiased ==
    mDone =>
        /\ DOMAIN mResult = (DOMAIN mFirst) \cup (DOMAIN mSecond)
        /\ \A k \in DOMAIN mResult :
              mResult[k] = IF k \in DOMAIN mSecond THEN mSecond[k] ELSE mFirst[k]

\* a merge has run on two sets that disagree on a shared key and that each
\* hold a key the other lacks
C1_Witness ==
    /\ mDone
    /\ \E k \in (DOMAIN mFirst) \cap (DOMAIN mSecond) : mFirst[k] # mSecond[k]
    /\ (DOMAIN mFirst) \ (DOMAIN mSecond) # {}

(***************************************************************************)
(* SpecLoader: LoadConfigurationDirectory on every directory of at most    *)
(* MaxFiles rule files, each with every content of FileContents.           *)
(***************************************************************************)
InitLoader ==
    /\ MergeIdle
    /\ SourceEmpty
    /\ caller = "client"
    /\ EngineIdle
    /\ ldGlobOK \in BOOLEAN
    /\ ldFiles \in UNION {[S -> FileContents] : S \in SUBSET FileNames}
    /\ ldDone = FALSE
    /\ ldRet = NotReturned
    /\ RestIdle

NextLoader == LoadDirectory

SpecLoader == InitLoader /\ [][NextLoader]_vars

\* whether a file can be opened, read and decoded into at least one group
Loads(content) ==
    content.readable /\ content.yamlOK /\ Len(content.groups) > 0

Failing == {n \in DOMAIN ldFiles : ~Loads(ldFiles[n])}

\* C9: with at least one matching file, LoadConfigurationDirectory tries
\* every file in scan order, returns one document for each file that loads,
\* in scan order, and none for the others, and its error is non-nil exactly
\* when some file failed.
C9_FailSoft ==
    (ldDone /\ ldGlobOK /\ DOMAIN ldFiles # {}) =>
       /\ ldRet.attempted = GlobYaml(ldFiles)
       /\ [i \in 1..Len(ldRet.items) |-> ldRet.items[i].file]
             = SelectSeq(GlobYaml(ldFiles), LAMBDA n : Loads(ldFiles[n]))
       /\ ~ldRet.isNil
       /\ (ldRet.err # NoErr) <=> (Failing # {})

\* a directory was loaded whose first file fails and whose later files load
C9_Witness ==
    /\ ldDone /\ ldGlobOK
    /\ Len(ldRet.attempted) = 3
    /\ ldRet.attempted[1] \in Failing
    /\ Len(ldRet.items) = 2

\* C10: when files fail, the error returned is that of the last failing file
\* in scan order, also when a file after it loads.
C10_LastErrorWins ==
    (ldDone /\ ldGlobOK /\ Failing # {}) =>
       LET names == GlobYaml(ldFiles)
           last == CHOOSE i \in 1..Len(names) :
                      /\ names[i] \in Failing
                      /\ \A j \in (i + 1)..Len(names) : names[j] \notin Failing
       IN  ldRet.err = LoadConfigurationFile(ldFiles, names[last],
                                             Namespace, Prometheus).err

\* two files failed for different reasons and the file after them loaded
C10_Witness ==
    /\ ldDone /\ ldGlobOK
    /\ Len(ldRet.attempted) = 3
    /\ ldRet.attempted[1] \in Failing /\ ldRet.attempted[2] \in Failing
    /\ ldRet.attempted[3] \notin Failing
    /\ ldFiles[ldRet.attempted[1]] # ldFiles[ldRet.attempted[2]]

\* C11: on a directory without a file matching *.yaml (a directory that does
\* not exist or cannot be read looks the same to Glob), and on a pattern Glob
\* rejects, LoadConfigurationDirectory returns a non-nil error and no list.
C11_NoFilesIsError ==
    (ldDone /\ (~ldGlobOK \/ DOMAIN ldFiles = {})) =>
       /\ ldRet.err # NoErr
       /\ ldRet.isNil
       /\ ldRet.items = <<>>

\* a directory without rule files was loaded, the pattern being accepted
C11_Witness ==
    /\ ldDone /\ ldGlobOK
    /\ DOMAIN ldFiles = {}
    /\ ldRet.err.kind = "Unable to expand directory"

\* a rule with exactly one of its record and alert fields set
OneKind(rule) == (rule.Record # "") # (rule.Alert # "")

WellFormed(groups) ==
    \A g \in 1..Len(groups) : \A r \in 1..Len(groups[g].Rules) :
        OneKind(groups[g].Rules[r])

\* C12: every rule of every document loaded has exactly one of record and
\* alert set, and a file holding a rule with both or with neither yields an
\* error and no document.
C12_ExactlyOneOfRecordAlert ==
    (ldDone /\ ldGlobOK) =>
       /\ \A i \in 1..Len(ldRet.items) : WellFormed(ldRet.items[i].Groups)
       /\ \A n \in DOMAIN ldFiles :
             (Loads(ldFiles[n]) /\ ~WellFormed(ldFiles[n].groups)) =>
                ldRet.err # NoErr

\* C13: every document loaded has at least one group, and a file that
\* decodes to zero groups yields an error and no document.
C13_ZeroGroupsRejected ==
    (ldDone /\ ldGlobOK) =>
       /\ \A i \in 1..Len(ldRet.items) : Len(ldRet.items[i].Groups) >= 1
       /\ \A n \in DOMAIN ldFiles :
             (ldFiles[n].readable /\ ldFiles[n].yamlOK
                 /\ Len(ldFiles[n].groups) = 0) =>
                /\ ldRet.err # NoErr
                /\ \A i \in 1..Len(ldRet.items) : ldRet.items[i].file # n

\* a directory was loaded in which the last file decodes to zero groups and
\* the file before it loads
C13_Witness ==
    /\ ldDone /\ ldGlobOK
    /\ Len(ldRet.attempted) >= 2
    /\ LET last == ldRet.attempted[Len(ldRet.attempted)]
       IN  /\ ldFiles[last].readable /\ ldFiles[last].yamlOK
           /\ Len(ldFiles[last].groups) = 0
    /\ Len(ldRet.items) >= 1
    /\ ldRet.err.kind = "No groups found"

\* C15: the documents one LoadConfigurationDirectory call returns have
\* pairwise different names.
C15_UniqueNames ==
    ldDone =>
       \A i, j \in 1..Len(ldRet.items) :
          i # j => ldRet.items[i].Name # ldRet.items[j].Name

(***************************************************************************)
(* SpecName: buildRuleName on every path of at most MaxPath characters     *)
(* followed by ".yaml", with and without a trailing separator, and on      *)
(* every target name of NameTargets.                                       *)
(***************************************************************************)
MaxPath == 3

PathChars == {"/", ".", "-", "a"}
Yaml == <<".", "y", "a", "m", "l">>
Rules == <<"-", "r", "u", "l", "e", "s">>

NamePaths ==
    {p \o Yaml \o t : p \in UNION {[1..n -> PathChars] : n \in 0..MaxPath},
                      t \in {<<>>, <<"/">>}}

NameTargets == {<<"p">>, <<"p", ".", "q">>}

InitName ==
    /\ MergeIdle
    /\ SourceEmpty
    /\ caller = "client"
    /\ EngineIdle
    /\ LoaderIdle
    /\ nmFile \in NamePaths
    /\ nmProm \in NameTargets
    /\ nmRet = <<>>
    /\ nmDone = FALSE
    /\ ToolIdle
    /\ ConcIdle

BuildName ==
    /\ ~nmDone
    /\ nmRet' = buildRuleName(nmFile, nmProm)
    /\ nmDone' = TRUE
    /\ UNCHANGED <<nmFile, nmProm, mergeVars, srcDirVars, engineVars, loaderVars,
                   toolVars, concVars>>

NextName == BuildName

SpecName == InitName /\ [][NextName]_vars

\* the characters of path from position from to position to
Slice(path, from, to) == [i \in 1..(to - from + 1) |-> path[from + i - 1]]

\* C14: the name derived from a path whose base name ends in ".yaml" is the
\* target name, a hyphen, the base name without its last five characters and
\* with each dot turned into a hyphen, and "-rules"; the base name is what
\* follows the last separator, trailing separators set aside.
C14_NameDerivation ==
    nmDone =>
       \E from \in 1..Len(nmFile), to \in 1..Len(nmFile) :
          /\ from <= to - 4
          /\ \A i \in (to + 1)..Len(nmFile) : nmFile[i] = "/"
          /\ \A i \in from..to : nmFile[i] # "/"
          /\ from > 1 => nmFile[from - 1] = "/"
          /\ Slice(nmFile, to - 4, to) = Yaml
          /\ nmRet = nmProm \o <<"-">>
                       \o [i \in 1..(to - from - 4) |->
                              IF nmFile[from + i - 1] = "." THEN "-"
                              ELSE nmFile[from + i - 1]]
                       \o Rules

\* a name was derived from a path with a directory component and a dot in
\* the stem of its base name, for a target name that holds a dot
C14_Witness ==
    /\ nmDone
    /\ nmFile = <<"/", "a", ".">> \o Yaml
    /\ nmProm = <<"p", ".", "q">>
    /\ nmRet = <<"p", ".", "q", "-", "a", "-">> \o Rules

(***************************************************************************)
(* The command (package main).  A run is main from the expansion of the    *)
(* source directory to its return; the flags are parsed, and the           *)
(* kubeconfig, taken to define every context of ToolContexts, is loaded.   *)
(* promtool and the API servers are outside the program: what they answer  *)
(* is chosen at each call.                                                 *)
(***************************************************************************)
MaxCtx == 2
MaxSinkFaults == 1

unitTestContextName == "unittest"

ToolContexts == {"c1", "c2", unitTestContextName}
KubeContexts == ToolContexts

ToolArgs == [contexts : UNION {[1..n -> ToolContexts] : n \in 1..MaxCtx},
             dryRun : BOOLEAN, skipSyntax : BOOLEAN, skipUnits : BOOLEAN]

\* for _, ctx := range contexts { _, ok := cfg.Contexts[ctx]; ... }
validateContexts(cfg, contexts) ==
    \A i \in 1..Len(contexts) : contexts[i] \in cfg

\* the rendered rule files of a context: all of them load, or the first of
\* them decodes to zero groups
AYaml == FileNameOrder[3]
BYaml == FileNameOrder[4]
GoodRules == FileOf(<<GroupOf(<<RuleOf("m", "")>>)>>)
AllGood == AYaml :> GoodRules @@ BYaml :> GoodRules
OneBad == AYaml :> FileOf(<<>>) @@ BYaml :> GoodRules
ToolDirs == {AllGood, OneBad}

\* the tests/*.yaml files of the source directory
ToolFixtures == << <<"t", ".", "y", "a", "m", "l">> >>

\* ExpandDirectory as main sees it: for each context of the list a fresh
\* directory holding what the templates render to, then rv[context] = data
RECURSIVE ExpandAll(_, _, _)
ExpandAll(st, rendered, todo) ==
    IF todo = <<>> THEN st
    ELSE LET context == Head(todo)
             outDir == CHOOSE d \in mktemp(context, st.allocated) : TRUE
             names == GlobYaml(rendered[context])
             data == [Context |-> context, Directory |-> outDir,
                      Files |-> [i \in 1..Len(names) |-> TopPath(names[i])]
                                \o [i \in 1..Len(ToolFixtures) |->
                                      TestsPath(ToolFixtures[i])]]
         IN  ExpandAll([rv |-> MapSet(st.rv, context, data),
                        allocated |-> st.allocated \cup {outDir},
                        disk |-> MapSet(st.disk, outDir, rendered[context])],
                       rendered, Tail(todo))

\* strings.HasPrefix(file, "tests/")
HasTestsPrefix(file) == Len(file) = 2 /\ file[1] = "tests"

\* the files of tpl.Files with, or without, the prefix, under tpl.Directory
Targets(tpl, tests) ==
    LET files == SelectSeq(tpl.Files, LAMBDA f : HasTestsPrefix(f) = tests)
    IN  [i \in 1..Len(files) |-> [dir |-> tpl.Directory, file |-> files[i]]]

\* the files doSyntaxChecks hands to prom.Check, in the order it does
RECURSIVE SyntaxTargets(_, _)
SyntaxTargets(order, tplData) ==
    IF order = <<>> THEN <<>>
    ELSE Targets(tplData[Head(order)], FALSE)
            \o SyntaxTargets(Tail(order), tplData)

\* the files doUnitTests hands to prom.Test, in the order it does
RECURSIVE UnitTargets(_, _)
UnitTargets(order, tplData) ==
    IF order = <<>> THEN <<>>
    ELSE (IF tplData[Head(order)].Context # unitTestContextName THEN <<>>
          ELSE Targets(tplData[Head(order)], TRUE))
            \o UnitTargets(Tail(order), tplData)

\* promtool on each file in turn; the first failure is returned at once.
\* bad holds the files promtool rejects.
RECURSIVE RunPromtool(_, _, _, _)
RunPromtool(op, todo, bad, done) ==
    IF todo = <<>> THEN [checks |-> done, err |-> NoError]
    ELSE LET t == Head(todo)
             run == [op |-> op, dir |-> t.dir, file |-> t.file,
                     ok |-> t \notin bad]
         IN  IF t \in bad
             THEN [checks |-> done \cup {run}, err |-> op]
             ELSE RunPromtool(op, Tail(todo), bad, done \cup {run})

\* a syntax check that prints what promtool says and returns nil
doSyntaxChecksWarnOnly(order, tplData, bad) ==
    [checks |-> RunPromtool("check", SyntaxTargets(order, tplData), bad, {}).checks,
     err |-> NoError]

\* order is the order in which range visits the map tplData
doSyntaxChecks(order, tplData, bad) ==
    RunPromtool("check", SyntaxTargets(order, tplData), bad, {})

doUnitTests(order, tplData, bad) ==
    RunPromtool("test", UnitTargets(order, tplData), bad, {})

AtMostOne(S) == {{}} \cup {{x} : x \in S}

\* an upload that treats the unit-test context like any other
UploadSkipsNone(t) == FALSE

\* if t.Context == unitTestContextName { return }
UploadSkips(t) == t.Context = unitTestContextName

\* a test that lets through whatever did load: if rules == nil { return }
LoadFailedOnlyNil(rules) == rules.isNil

\* if err != nil { log.Printf(...); return }
LoadFailed(rules) == rules.err # NoErr

\* the object a loaded document is sent as; no resource version is set yet
RuleObject(doc) == [Name |-> doc.Name, ResourceVersion |-> 0]

\* an update sent without the version of the object fetched
SetResourceVersionKeep(rule, version) == rule

\* rule.SetResourceVersion(p.GetResourceVersion())
SetResourceVersion(rule, version) == [rule EXCEPT !.ResourceVersion = version]

\* The API server of one cluster.  store maps the names of its objects to
\* their resource versions; fault is a failure of the call itself.
SinkCreate(store, rule, fault) ==
    IF fault \/ rule.Name \in DOMAIN store
    THEN [ok |-> FALSE, store |-> store]
    ELSE [ok |-> TRUE, store |-> MapSet(store, rule.Name, 1)]

SinkGet(store, name, fault) ==
    IF fault \/ name \notin DOMAIN store
    THEN [ok |-> FALSE, p |-> NoObject]
    ELSE [ok |-> TRUE, p |-> [Name |-> name, ResourceVersion |-> store[name]]]

SinkUpdate(store, rule, fault) ==
    IF fault \/ rule.Name \notin DOMAIN store
             \/ rule.ResourceVersion # store[rule.Name]
    THEN [ok |-> FALSE, store |-> store]
    ELSE [ok |-> TRUE, store |-> MapSet(store, rule.Name, store[rule.Name] + 1)]

\* at most MaxSinkFaults calls of a run fail for a reason outside the program
FaultChoices == IF tlFaults < MaxSinkFaults THEN BOOLEAN ELSE {FALSE}

\* main from the prepending of the unit-test context to promtool.New
TExpand ==
    /\ tlPc = "start"
    /\ IF ~validateContexts(KubeContexts, tlArgs.contexts)
       THEN /\ tlPc' = "exit"
            /\ UNCHANGED <<tlContexts, tlData, tlDisk>>
       ELSE LET contexts == <<unitTestContextName>> \o tlArgs.contexts
                st0 == [rv |-> EmptyValues, allocated |-> {}, disk |-> tlDisk]
            IN  /\ tlContexts' = contexts
                /\ \E done \in 0..Len(contexts), promtoolFound \in BOOLEAN :
                      LET r == ExpandAll(st0, tlRendered, SubSeq(contexts, 1, done))
                      IN  /\ tlDisk' = r.disk
                          /\ tlData' = IF done = Len(contexts) THEN r.rv
                                       ELSE EmptyValues
                          /\ tlPc' = IF done = Len(contexts) /\ promtoolFound
                                     THEN "syntax" ELSE "fatal"
    /\ UNCHANGED <<tlArgs, tlRendered, tlChecks, tlIdx, tlRules, tlRule, tlGot,
                   tlRemote, tlLoads, tlEmits, tlCalls, tlVisits, tlFaults>>
    /\ UNCHANGED <<mergeVars, srcDirVars, engineVars, loaderVars, nameVars,
                   concVars>>

\* if *skipSyntax { ... } else { err = doSyntaxChecks(prom, tplData); ... }
TSyntax ==
    /\ tlPc = "syntax"
    /\ IF tlArgs.skipSyntax
       THEN /\ tlPc' = "units"
            /\ UNCHANGED tlChecks
       ELSE \E order \in Perms(DOMAIN tlData) :
               \E bad \in AtMostOne(SeqRange(SyntaxTargets(order, tlData))) :
                  LET r == doSyntaxChecks(order, tlData, bad)
                  IN  /\ tlChecks' = tlChecks \cup r.checks
                      /\ tlPc' = IF r.err # NoError THEN "fatal" ELSE "units"
    /\ UNCHANGED <<tlArgs, tlRendered, tlContexts, tlData, tlDisk, tlIdx, tlRules,
                   tlRule, tlGot, tlRemote, tlLoads, tlEmits, tlCalls, tlVisits,
                   tlFaults>>
    /\ UNCHANGED <<mergeVars, srcDirVars, engineVars, loaderVars, nameVars,
                   concVars>>

\* if *skipUnits { ... } else { err = doUnitTests(prom, tplData); ... }
TUnits ==
    /\ tlPc = "units"
    /\ IF tlArgs.skipUnits
       THEN /\ tlPc' = "upload"
            /\ UNCHANGED tlChecks
       ELSE \E order \in Perms(DOMAIN tlData) :
               \E bad \in AtMostOne(SeqRange(UnitTargets(order, tlData))) :
                  LET r == doUnitTests(order, tlData, bad)
                  IN  /\ tlChecks' = tlChecks \cup r.checks
                      /\ tlPc' = IF r.err # NoError THEN "fatal" ELSE "upload"
    /\ tlIdx' = 1
    /\ UNCHANGED <<tlArgs, tlRendered, tlContexts, tlData, tlDisk, tlRules,
                   tlRule, tlGot, tlRemote, tlLoads, tlEmits, tlCalls, tlVisits,
                   tlFaults>>
    /\ UNCHANGED <<mergeVars, srcDirVars, engineVars, loaderVars, nameVars,
                   concVars>>

\* tpl := tplData[ctx] and uploadPrometheusRules up to its range over the
\* rules; clientOK is whether the API client of the context can be made
TUpload ==
    /\ tlPc = "upload"
    /\ tlIdx <= Len(tlContexts)
    /\ LET ctx == tlContexts[tlIdx]
           t == tlData[ctx]
           rules == LoadConfigurationDirectory(TRUE, tlDisk[t.Directory],
                                               Namespace, Prometheus)
           loaded == ~UploadSkips(t)
           emits == loaded /\ ~LoadFailed(rules) /\ tlArgs.dryRun
           sends == loaded /\ ~LoadFailed(rules) /\ ~tlArgs.dryRun
       IN  /\ tlVisits' = Append(tlVisits, ctx)
           /\ tlLoads' = IF loaded
                         THEN tlLoads \cup {[dir |-> t.Directory, err |-> rules.err,
                                             items |-> rules.items]}
                         ELSE tlLoads
           /\ tlEmits' = IF emits
                         THEN tlEmits \cup {[ctx |-> t.Context, dir |-> t.Directory,
                                             items |-> rules.items]}
                         ELSE tlEmits
           /\ \E fault \in FaultChoices :
                 LET clientOK == ~fault
                     ranges == sends /\ clientOK /\ rules.items # <<>>
                 IN  /\ fault => sends
                     /\ tlFaults' = IF fault THEN tlFaults + 1 ELSE tlFaults
                     /\ tlRules' = IF ranges THEN rules.items ELSE <<>>
                     /\ tlRule' = IF ranges THEN 1 ELSE 0
                     /\ tlPc' = IF ranges THEN "create" ELSE "upload"
                     /\ tlIdx' = IF ranges THEN tlIdx ELSE tlIdx + 1
    /\ UNCHANGED <<tlArgs, tlRendered, tlContexts, tlData, tlDisk, tlChecks,
                   tlGot, tlRemote, tlCalls>>
    /\ UNCHANGED <<mergeVars, srcDirVars, engineVars, loaderVars, nameVars,
                   concVars>>

\* the API call the program makes next, as it is logged
Call(op, rule, ok) ==
    [op |-> op, ctx |-> tlContexts[tlIdx],
     dir |-> tlData[tlContexts[tlIdx]].Directory,
     name |-> rule.Name, version |-> rule.ResourceVersion, ok |-> ok]

\* the range over rules.Items moves on, or uploadPrometheusRules returns
NextRule ==
    /\ tlGot' = NoObject
    /\ IF tlRule < Len(tlRules)
       THEN /\ tlRule' = tlRule + 1
            /\ tlPc' = "create"
            /\ UNCHANGED <<tlRules, tlIdx>>
       ELSE /\ tlRule' = 0
            /\ tlRules' = <<>>
            /\ tlPc' = "upload"
            /\ tlIdx' = tlIdx + 1

\* _, err := api...Create(rule)
TCreate ==
    /\ tlPc = "create"
    /\ LET ctx == tlContexts[tlIdx]
           rule == RuleObject(tlRules[tlRule])
       IN  \E fault \in FaultChoices :
              LET r == SinkCreate(tlRemote[ctx], rule, fault)
              IN  /\ tlRemote' = [tlRemote EXCEPT ![ctx] = r.store]
                  /\ tlCalls' = Append(tlCalls, Call("Create", rule, r.ok))
                  /\ tlFaults' = IF fault THEN tlFaults + 1 ELSE tlFaults
                  /\ IF r.ok THEN NextRule
                     ELSE /\ tlPc' = "get"
                          /\ UNCHANGED <<tlRules, tlRule, tlIdx, tlGot>>
    /\ UNCHANGED <<tlArgs, tlRendered, tlContexts, tlData, tlDisk, tlChecks,
                   tlLoads, tlEmits, tlVisits>>
    /\ UNCHANGED <<mergeVars, srcDirVars, engineVars, loaderVars, nameVars,
                   concVars>>

\* p, err := api...Get(rule.GetName(), ...); a failure ends the run
TGet ==
    /\ tlPc = "get"
    /\ LET ctx == tlContexts[tlIdx]
           rule == RuleObject(tlRules[tlRule])
       IN  \E fault \in FaultChoices :
              LET r == SinkGet(tlRemote[ctx], rule.Name, fault)
              IN  /\ tlCalls' = Append(tlCalls,
                                      [Call("Get", r.p, r.ok)
                                          EXCEPT !.name = rule.Name])
                  /\ tlFaults' = IF fault THEN tlFaults + 1 ELSE tlFaults
                  /\ tlGot' = r.p
                  /\ tlPc' = IF r.ok THEN "update" ELSE "fatal"
    /\ UNCHANGED <<tlArgs, tlRendered, tlContexts, tlData, tlDisk, tlChecks,
                   tlIdx, tlRules, tlRule, tlRemote, tlLoads, tlEmits, tlVisits>>
    /\ UNCHANGED <<mergeVars, srcDirVars, engineVars, loaderVars, nameVars,
                   concVars>>

\* rule.SetResourceVersion(...); _, err = api...Update(rule); a failure ends
\* the run
TUpdate ==
    /\ tlPc = "update"
    /\ LET ctx == tlContexts[tlIdx]
           rule == SetResourceVersion(RuleObject(tlRules[tlRule]),
                                      tlGot.ResourceVersion)
       IN  \E fault \in FaultChoices :
              LET r == SinkUpdate(tlRemote[ctx], rule, fault)
              IN  /\ tlRemote' = [tlRemote EXCEPT ![ctx] = r.store]
                  /\ tlCalls' = Append(tlCalls, Call("Update", rule, r.ok))
                  /\ tlFaults' = IF fault THEN tlFaults + 1 ELSE tlFaults
                  /\ IF r.ok THEN NextRule
                     ELSE /\ tlPc' = "fatal"
                          /\ UNCHANGED <<tlRules, tlRule, tlIdx, tlGot>>
    /\ UNCHANGED <<tlArgs, tlRendered, tlContexts, tlData, tlDisk, tlChecks,
                   tlLoads, tlEmits, tlVisits>>
    /\ UNCHANGED <<mergeVars, srcDirVars, engineVars, loaderVars, nameVars,
                   concVars>>

\* the upload loop is over and main returns
TReturn ==
    /\ tlPc = "upload"
    /\ tlIdx > Len(tlContexts)
    /\ tlPc' = "done"
    /\ UNCHANGED <<tlArgs, tlRendered, tlContexts, tlData, tlDisk, tlChecks,
                   tlIdx, tlRules, tlRule, tlGot, tlRemote, tlLoads, tlEmits,
                   tlCalls, tlVisits, tlFaults>>
    /\ UNCHANGED <<mergeVars, srcDirVars, engineVars, loaderVars, nameVars,
                   concVars>>

(***************************************************************************)
(* SpecTool: one run of the command for every choice of flags, for the     *)
(* rendered rule files of ToolDirs and for clusters that hold, or do not   *)
(* hold, an object of the first document's name.                           *)
(***************************************************************************)
InitTool ==
    /\ MergeIdle
    /\ SourceEmpty
    /\ caller = "client"
    /\ EngineIdle
    /\ LoaderIdle
    /\ NameIdle
    /\ tlArgs \in ToolArgs
    /\ tlRendered \in {r \in [ToolContexts -> ToolDirs] :
                         r[unitTestContextName] = AllGood}
    /\ tlPc = "start"
    /\ tlContexts = <<>>
    /\ tlData = EmptyValues
    /\ tlDisk = EmptyValues
    /\ tlChecks = {}
    /\ tlIdx = 0
    /\ tlRules = <<>>
    /\ tlRule = 0
    /\ tlGot = NoObject
    /\ tlRemote \in {[c \in ToolContexts |-> EmptyValues],
                     [c \in ToolContexts |->
                         buildRuleName(AYaml, Prometheus) :> 1]}
    /\ tlLoads = {}
    /\ tlEmits = {}
    /\ tlCalls = <<>>
    /\ tlVisits = <<>>
    /\ tlFaults = 0
    /\ ConcIdle

NextTool ==
    \/ TExpand
    \/ TSyntax
    \/ TUnits
    \/ TUpload
    \/ TCreate
    \/ TGet
    \/ TUpdate
    \/ TReturn

SpecTool == InitTool /\ [][NextTool]_vars

\* the directories made for the unit-test context
OfUnitTest(dir) == dir.ctx = unitTestContextName

Uploads == {i \in 1..Len(tlCalls) : tlCalls[i].op \in {"Create", "Update"}}

\* C16: no directory made for the context "unittest" is ever loaded for
\* upload, no rule list from it is printed in dry-run, and no API call is
\* made for it, whatever contexts the user names.
C16_UnitTestNeverUploaded ==
    /\ \A l \in tlLoads : ~OfUnitTest(l.dir)
    /\ \A e \in tlEmits : ~OfUnitTest(e.dir) /\ e.ctx # unitTestContextName
    /\ \A i \in 1..Len(tlCalls) :
          ~OfUnitTest(tlCalls[i].dir) /\ tlCalls[i].ctx # unitTestContextName

\* a run returned in which the user named the context "unittest" and another
\* context, whose documents were sent
C16_Witness ==
    /\ tlPc = "done"
    /\ tlArgs.contexts[1] = unitTestContextName
    /\ Len(tlArgs.contexts) = 2
    /\ Uploads # {}

PassedCheck(op, dir, file) ==
    [op |-> op, dir |-> dir, file |-> file, ok |-> TRUE] \in tlChecks

\* C17: with neither skip flag set, a Create or Update is only made once
\* every file outside tests/ of every entry of the expansion has passed
\* promtool check and every tests/ file of the unit-test context has passed
\* promtool test; a failed promtool run ends the run with no API call made.
C17_ChecksBeforeUpload ==
    (~tlArgs.skipSyntax /\ ~tlArgs.skipUnits) =>
       /\ Uploads # {} =>
            \A c \in DOMAIN tlData : \A i \in 1..Len(tlData[c].Files) :
               LET file == tlData[c].Files[i]
               IN  IF ~HasTestsPrefix(file)
                   THEN PassedCheck("check", tlData[c].Directory, file)
                   ELSE c = unitTestContextName =>
                           PassedCheck("test", tlData[c].Directory, file)
       /\ (\E c \in tlChecks : ~c.ok) => (tlPc = "fatal" /\ tlCalls = <<>>)

\* documents of two contexts were sent in a run without skip flags
C17_Witness ==
    /\ ~tlArgs.skipSyntax /\ ~tlArgs.skipUnits
    /\ \E i, j \in Uploads : tlCalls[i].ctx # tlCalls[j].ctx
    /\ \E c \in tlChecks : c.op = "test"

SameObject(a, b) == a.ctx = b.ctx /\ a.name = b.name /\ a.dir = b.dir

\* C18: the calls for a document start with a Create; a Get is only made
\* right after the failed Create of the same document, an Update only right
\* after the successful Get of the same document and with the version that
\* Get returned, and a successful Create is followed by the Create of the
\* next document, if by anything.
C18_CreateGetUpdate ==
    \A i \in 1..Len(tlCalls) :
       LET c == tlCalls[i]
       IN  /\ c.op = "Get" =>
                /\ i >= 2
                /\ tlCalls[i - 1].op = "Create" /\ ~tlCalls[i - 1].ok
                /\ SameObject(tlCalls[i - 1], c)
           /\ c.op = "Update" =>
                /\ i >= 3
                /\ tlCalls[i - 1].op = "Get" /\ tlCalls[i - 1].ok
                /\ SameObject(tlCalls[i - 1], c)
                /\ c.version = tlCalls[i - 1].version
                /\ c.version >= 1
           /\ c.op = "Create" =>
                /\ c.version = 0
                /\ i > 1 => \/ tlCalls[i - 1].op = "Create" /\ tlCalls[i - 1].ok
                            \/ tlCalls[i - 1].op = "Update" /\ tlCalls[i - 1].ok
                /\ (c.ok /\ i < Len(tlCalls)) => tlCalls[i + 1].op = "Create"

\* a document that existed was fetched and updated, and the next document,
\* which did not exist, was created
C18_Witness ==
    /\ Len(tlCalls) >= 4
    /\ tlCalls[1].op = "Create" /\ ~tlCalls[1].ok
    /\ tlCalls[2].op = "Get" /\ tlCalls[2].ok
    /\ tlCalls[3].op = "Update" /\ tlCalls[3].ok
    /\ tlCalls[4].op = "Create" /\ tlCalls[4].ok

AllLoad(dir) == \A n \in DOMAIN tlDisk[dir] : Loads(tlDisk[dir][n])

\* C20: documents are sent, or printed in dry-run, only from a directory all
\* of whose rule files loaded; a directory with a file that failed yields
\* neither, whatever did load from it, and the run goes on to the next
\* context: a run that returns has called uploadPrometheusRules for every
\* context of the list.
C20_UploadOnlyIfAllLoaded ==
    /\ \A i \in 1..Len(tlCalls) : AllLoad(tlCalls[i].dir)
    /\ \A e \in tlEmits : AllLoad(e.dir)
    /\ \A l \in tlLoads :
          l.err # NoErr =>
             /\ \A i \in 1..Len(tlCalls) : tlCalls[i].dir # l.dir
             /\ \A e \in tlEmits : e.dir # l.dir
    /\ tlPc \in {"upload", "create", "get", "update"} =>
          tlVisits = SubSeq(tlContexts, 1, Len(tlVisits))
    /\ tlPc = "done" => tlVisits = tlContexts

\* a run returned in which a context with one failing and one loading rule
\* file came before a context whose documents were sent
C20_Witness ==
    /\ tlPc = "done"
    /\ \E l \in tlLoads :
          /\ l.err # NoErr /\ l.items # <<>>
          /\ l.dir = tlData[tlContexts[2]].Directory
    /\ \E i \in Uploads : tlCalls[i].ctx = tlContexts[3]

(***************************************************************************)
(* expandDirectory, statement by statement, for two contexts at once over  *)
(* one internalTemplate.  A Go map is a reference: cxData.variables maps a *)
(* layer to the reference of its map, and cxHeap holds what each reference *)
(* points to.  NilMap is the map of the zero Values.                       *)
(***************************************************************************)
Procs == {"p1", "p2"}

NilMap == 0

\* the reference of the map parseValues made for a layer
LayerId(layer) == CHOOSE i \in 1..Len(LayerOrder) : LayerOrder[i] = layer

\* the internalTemplate createInternalTemplate returns for the source directory
Loaded == createInternalTemplate(srcVars, srcBad, srcFixtures).rv

Deref(heap, ref) == IF ref = NilMap THEN EmptyValues ELSE heap[ref]

\* make(map[string]string): a reference no map has yet
NewMap(heap) ==
    Len(LayerOrder) + Cardinality({r \in DOMAIN heap : r > Len(LayerOrder)}) + 1

\* rv, ok := i.variables[context]; the Values returned shares the map
getVariablesRef(data, context) ==
    IF context \in DOMAIN data.variables THEN data.variables[context]
    ELSE NilMap

\* a merge that saves the copy of first: it adds second to the map of first
mergeValuesInPlace(heap, first, second) ==
    IF first = NilMap
    THEN [heap |-> MapSet(heap, NewMap(heap),
                          mergeValues(EmptyValues, Deref(heap, second))),
          values |-> NewMap(heap)]
    ELSE [heap |-> MapSet(heap, first,
                          mergeValues(heap[first], Deref(heap, second))),
          values |-> first]

\* mergeValues on references: the result is a map of its own
mergeValuesRef(heap, first, second) ==
    [heap |-> MapSet(heap, NewMap(heap),
                     mergeValues(Deref(heap, first), Deref(heap, second))),
     values |-> NewMap(heap)]

\* met is not program state: it tells whether the expansion has run a
\* statement while another one was between its mktemp and its return
NoProc == [pc |-> "merge", context |-> "", values |-> NilMap, order |-> <<>>,
           todo |-> <<>>, rv |-> ZeroTemplateData, met |-> FALSE]

Met(p) ==
    \/ cxProc[p].met
    \/ \E q \in Procs \ {p} : cxProc[q].pc \in {"templates", "mkdir", "fixtures"}

Write(p, dir) == cxWrites \cup {[proc |-> p, dir |-> dir]}

\* values := mergeValues(data.getVariables("default"), data.getVariables(context))
CxMerge(p) ==
    /\ cxProc[p].pc = "merge"
    /\ LET r == mergeValuesRef(cxHeap, getVariablesRef(cxData, "default"),
                               getVariablesRef(cxData, cxProc[p].context))
       IN  /\ cxHeap' = r.heap
           /\ cxProc' = [cxProc EXCEPT ![p].values = r.values, ![p].pc = "inject",
                                       ![p].met = Met(p)]
    /\ UNCHANGED <<cxData, cxDisk, cxAlloc, cxWrites>>
    /\ UNCHANGED <<mergeVars, srcDirVars, engineVars, loaderVars, nameVars,
                   toolVars>>

\* values.Values["context"] = context
CxInject(p) ==
    /\ cxProc[p].pc = "inject"
    /\ cxHeap' = [cxHeap EXCEPT ![cxProc[p].values] =
                     MapSet(@, "context", cxProc[p].context)]
    /\ cxProc' = [cxProc EXCEPT ![p].pc = "mktemp", ![p].met = Met(p)]
    /\ UNCHANGED <<cxData, cxDisk, cxAlloc, cxWrites>>
    /\ UNCHANGED <<mergeVars, srcDirVars, engineVars, loaderVars, nameVars,
                   toolVars>>

\* outDir, err := mktemp(...); order is the order in which the range over
\* data.templates will visit the map
CxMktemp(p) ==
    /\ cxProc[p].pc = "mktemp"
    /\ \E outDir \in mktemp(cxProc[p].context, cxAlloc),
          order \in Perms(DOMAIN cxData.templates) :
          /\ cxAlloc' = cxAlloc \cup {outDir}
          /\ cxDisk' = MapSet(cxDisk, outDir, [files |-> EmptyValues,
                                               tests |-> FALSE])
          /\ cxWrites' = Write(p, outDir)
          /\ cxProc' = [cxProc EXCEPT ![p].rv.Directory = outDir,
                                      ![p].rv.Context = cxProc[p].context,
                                      ![p].order = order,
                                      ![p].todo = order,
                                      ![p].met = Met(p),
                                      ![p].pc = IF order = <<>> THEN "mkdir"
                                                ELSE "templates"]
    /\ UNCHANGED <<cxData, cxHeap>>
    /\ UNCHANGED <<mergeVars, srcDirVars, engineVars, loaderVars, nameVars,
                   toolVars>>

\* one pass of the range over data.templates: os.Create, append, tpl.Execute
CxTemplate(p) ==
    /\ cxProc[p].pc = "templates"
    /\ LET filename == Head(cxProc[p].todo)
           outDir == cxProc[p].rv.Directory
       IN  /\ cxDisk' = [cxDisk EXCEPT ![outDir].files =
                            MapSet(@, TopPath(filename),
                                   Render(cxData.templates[filename],
                                          Deref(cxHeap, cxProc[p].values)))]
           /\ cxWrites' = Write(p, outDir)
           /\ cxProc' = [cxProc EXCEPT
                            ![p].rv.Files = Append(@, TopPath(filename)),
                            ![p].todo = Tail(@),
                            ![p].met = Met(p),
                            ![p].pc = IF Tail(cxProc[p].todo) = <<>> THEN "mkdir"
                                      ELSE "templates"]
    /\ UNCHANGED <<cxData, cxHeap, cxAlloc>>
    /\ UNCHANGED <<mergeVars, srcDirVars, engineVars, loaderVars, nameVars,
                   toolVars>>

\* os.Mkdir(filepath.Join(outDir, "tests"), 0777); testFiles, err := Glob(...)
CxMkdir(p) ==
    /\ cxProc[p].pc = "mkdir"
    /\ cxDisk' = [cxDisk EXCEPT ![cxProc[p].rv.Directory].tests = TRUE]
    /\ cxWrites' = Write(p, cxProc[p].rv.Directory)
    /\ cxProc' = [cxProc EXCEPT ![p].todo = TestFiles(cxData),
                                ![p].met = Met(p),
                                ![p].pc = "fixtures"]
    /\ UNCHANGED <<cxData, cxHeap, cxAlloc>>
    /\ UNCHANGED <<mergeVars, srcDirVars, engineVars, loaderVars, nameVars,
                   toolVars>>

\* one pass of the range over testFiles: os.Open, os.Create, io.Copy, append
CxFixture(p) ==
    /\ cxProc[p].pc = "fixtures"
    /\ cxProc[p].todo # <<>>
    /\ LET file == Head(cxProc[p].todo)
           outDir == cxProc[p].rv.Directory
       IN  /\ cxDisk' = [cxDisk EXCEPT ![outDir].files =
                            MapSet(@, TestsPath(file), FixtureContent(file))]
           /\ cxWrites' = Write(p, outDir)
           /\ cxProc' = [cxProc EXCEPT
                            ![p].rv.Files = Append(@, TestsPath(file)),
                            ![p].todo = Tail(@),
                            ![p].met = Met(p)]
    /\ UNCHANGED <<cxData, cxHeap, cxAlloc>>
    /\ UNCHANGED <<mergeVars, srcDirVars, engineVars, loaderVars, nameVars,
                   toolVars>>

\* return rv, nil
CxReturn(p) ==
    /\ cxProc[p].pc = "fixtures"
    /\ cxProc[p].todo = <<>>
    /\ cxProc' = [cxProc EXCEPT ![p].pc = "done", ![p].met = Met(p)]
    /\ UNCHANGED <<cxData, cxHeap, cxDisk, cxAlloc, cxWrites>>
    /\ UNCHANGED <<mergeVars, srcDirVars, engineVars, loaderVars, nameVars,
                   toolVars>>

(***************************************************************************)
(* SpecConc: the expansions of two different contexts over the loaded      *)
(* source directory, their statements interleaved in every way.            *)
(***************************************************************************)
InitConc ==
    /\ MergeIdle
    /\ srcVars \in {v \in VarDirs : \A layer \in DOMAIN v : v[layer].ok}
    /\ srcBad = {}
    /\ srcFixtures \in SUBSET SeqRange(FixtureOrder)
    /\ caller = "client"
    /\ EngineIdle
    /\ LoaderIdle
    /\ NameIdle
    /\ ToolIdle
    /\ cxData = [variables |-> [layer \in DOMAIN Loaded.variables |->
                                   LayerId(layer)],
                 templates |-> Loaded.templates,
                 sourceDir |-> Loaded.sourceDir]
    /\ cxHeap = [r \in {LayerId(layer) : layer \in DOMAIN Loaded.variables} |->
                    Loaded.variables[LayerOrder[r]]]
    /\ cxProc \in {f \in [Procs -> {[NoProc EXCEPT !.context = c] :
                                      c \in Contexts}] :
                     \A p, q \in Procs : p # q => f[p].context # f[q].context}
    /\ cxDisk = EmptyValues
    /\ cxAlloc = {}
    /\ cxWrites = {}

NextConc ==
    \/ \E p \in Procs : CxMerge(p)
    \/ \E p \in Procs : CxInject(p)
    \/ \E p \in Procs : CxMktemp(p)
    \/ \E p \in Procs : CxTemplate(p)
    \/ \E p \in Procs : CxMkdir(p)
    \/ \E p \in Procs : CxFixture(p)
    \/ \E p \in Procs : CxReturn(p)

SpecConc == InitConc /\ [][NextConc]_vars

\* what expandDirectory returns and writes for the context of p when it runs
\* alone, given the directory and the map order p met
Alone(p) ==
    expandDirectory(cxProc[p].context, Loaded,
                    [mktempOK |-> TRUE, outDir |-> cxProc[p].rv.Directory,
                     order |-> cxProc[p].order, fault |-> NoFault,
                     mkdirOK |-> TRUE, copyFail |-> {}])

\* C19: however the statements of the two expansions interleave, the loaded
\* variable layers and templates stay as loaded, each expansion writes into
\* its own directory only, and an expansion that has returned has returned
\* and written what it returns and writes when it runs alone.
C19_Isolation ==
    /\ \A layer \in DOMAIN Loaded.variables :
          /\ layer \in DOMAIN cxData.variables
          /\ Deref(cxHeap, cxData.variables[layer]) = Loaded.variables[layer]
    /\ DOMAIN cxData.variables = DOMAIN Loaded.variables
    /\ cxData.templates = Loaded.templates
    /\ \A w \in cxWrites :
          /\ w.dir = cxProc[w.proc].rv.Directory
          /\ \A q \in Procs \ {w.proc} : cxProc[q].rv.Directory # w.dir
    /\ \A p \in Procs :
          cxProc[p].pc = "done" =>
             /\ cxProc[p].rv = Alone(p).rv
             /\ cxDisk[cxProc[p].rv.Directory]
                   = [files |-> Alone(p).files, tests |-> Alone(p).tests]
             /\ Deref(cxHeap, cxProc[p].values) = Alone(p).values

\* both expansions have returned, each having run statements while the other
\* was writing its directory; one context has a variable layer of its own,
\* and there is a fixture to copy
C19_Witness ==
    /\ \A p \in Procs : cxProc[p].pc = "done" /\ cxProc[p].met
    /\ \E p \in Procs : cxProc[p].context \in DOMAIN Loaded.variables
    /\ srcFixtures # {}

\* the directories mktemp returned during the ExpandDirectory call that has
\* just returned
AllocatedByCall ==
    {results[edAttempts[k]].rv.Directory : k \in 1..Len(edAttempts)} \ {NoDir}

\* C21: once ExpandDirectory has returned, each directory allocated during
\* the call is the Directory of exactly one entry of the mapping returned,
\* also for a list that names a context twice and for a call that failed at
\* a later context.
C21_AllocatedReferenced ==
    (caller = "client" /\ edRet.returned) =>
       \A d \in AllocatedByCall :
          Cardinality({c \in DOMAIN edRet.rv : edRet.rv[c].Directory = d}) = 1

====
